---- MODULE Spec2Model ----
(***************************************************************************)
(* Model of src/facility/list-facility-structure.js: main() resolves the   *)
(* level - room - asset structure of a facility in two passes (STEP 3-5    *)
(* collects tagged assets and their room references, STEP 6 fetches the    *)
(* referenced rooms and their levels per model) and STEP 7 walks the       *)
(* result with getLevels / getRoomsByLevel / getAssetsByRoom.              *)
(***************************************************************************)
EXTENDS Integers, Sequences, FiniteSets, TLC

\* ---- bounds -----------------------------------------------------------
NumModels  == 2   \* model partitions 1..NumModels a facility can link
NumAssets  == 1   \* element ids a tagged asset can have
NumRooms   == 2   \* element ids a room can have
NumLevels  == 1   \* element ids a level can have
MaxAssets  == 1   \* tagged assets one scan returns
MaxRefs    == 2   \* same-model room references of one asset
MaxXrefLen == 4   \* units in one cross-model reference blob

ModelNums == 1..NumModels
AssetIds  == 1..NumAssets
RoomIds   == 1..NumRooms
LevelIds  == 1..NumLevels
\* a facility whose default model is 0 links no default model
FacilityIds == 0..NumModels

\* ---- URNs -------------------------------------------------------------
DTT == "urn:adsk.dtt:"
DTM == "urn:adsk.dtm:"

Urn(prefix, id) == [prefix |-> prefix, id |-> id]

\* String.prototype.replace(from, to) on a URN that is prefix + id
replace(urn, from, to) ==
  IF urn.prefix = from THEN Urn(to, urn.id) ELSE urn

\* isDefaultModel without the prefix replaced
isDefaultModelNoReplace(facilityId, modelId) == facilityId = modelId

isDefaultModel(facilityId, modelId) ==
  LET defaultModelId == replace(facilityId, DTT, DTM)
  IN  defaultModelId = modelId

\* ---- keys -------------------------------------------------------------
\* A short key is the element id alone, a full key is the element id with
\* its flags in front; neither carries the model.
ShortKey(id) == [form |-> "short", id |-> id]
FullKeyOf(id) == [form |-> "full", id |-> id]
undefined == [form |-> "undefined", id |-> 0]

\* Encoding.toFullKey(shortKey): one argument, the key
toFullKey(k) == [form |-> "full", id |-> k.id]

\* Encoding.fromShortKeyArray(text): the blob is the ids one after another
fromShortKeyArray(text) == [i \in 1..Len(text) |-> ShortKey(text[i])]

\* Encoding.fromXrefKeyArray(text): the blob alternates model id and
\* element key (with flags); returns [modelKeys, elementKeys]
fromXrefKeyArray(text) ==
  LET n == Len(text)
  IN  << [i \in 1..((n + 1) \div 2) |-> text[2 * i - 1]],
         [i \in 1..(n \div 2) |-> FullKeyOf(text[2 * i])] >>

\* ---- insertion-ordered maps (JS objects with string keys) -------------
EmptyMap == [keys |-> <<>>, val |-> [k \in {} |-> 0]]
Has(m, k) == k \in DOMAIN m.val
Get(m, k) == IF Has(m, k) THEN m.val[k] ELSE undefined
Put(m, k, v) ==
  [keys |-> IF Has(m, k) THEN m.keys ELSE Append(m.keys, k),
   val  |-> [x \in (DOMAIN m.val) \cup {k} |-> IF x = k THEN v ELSE m.val[x]]]

\* ---- sequences --------------------------------------------------------
Range(s) == {s[i] : i \in 1..Len(s)}

\* new Set(array) spread back to an array: first occurrences, in order
RECURSIVE Distinct(_)
Distinct(s) ==
  IF s = <<>> THEN <<>>
  ELSE LET r == Distinct(SubSeq(s, 1, Len(s) - 1))
           x == s[Len(s)]
       IN  IF x \in Range(r) THEN r ELSE Append(r, x)

RECURSIVE SelectSeqBy(_, _)
\* array.filter(i => i.modelId === modelId)
SelectSeqBy(s, modelId) ==
  IF s = <<>> THEN <<>>
  ELSE LET r == SelectSeqBy(SubSeq(s, 1, Len(s) - 1), modelId)
           x == s[Len(s)]
       IN  IF x.modelId = modelId THEN Append(r, x) ELSE r

SeqsUpTo(S, n) == UNION {[1..k -> S] : k \in 0..n}

\* ---- elements the data service returns ---------------------------------
\* A tagged asset: its short key, the same-model room blob (QC.Rooms) and
\* the cross-model room blob (QC.XRooms); an absent property is the empty
\* blob. model records the partition the element was scanned from.
XrefBlobs ==
  {s \in SeqsUpTo(ModelNums \cup RoomIds, MaxXrefLen) :
     \A i \in 1..Len(s) : IF i % 2 = 1 THEN s[i] \in ModelNums
                                       ELSE s[i] \in RoomIds}

AssetElems(m) ==
  {[k |-> ShortKey(a), rooms |-> r, xrooms |-> x, model |-> m] :
     a \in AssetIds,
     r \in SeqsUpTo(RoomIds, MaxRefs) \ {<<>>},
     x \in {<<>>}}
  \cup
  {[k |-> ShortKey(a), rooms |-> <<>>, xrooms |-> x, model |-> m] :
     a \in AssetIds, x \in XrefBlobs}

\* the scans one model can answer with: elements of distinct keys
TaggedResponses(m) ==
  {s \in SeqsUpTo(AssetElems(m), MaxAssets) :
     \A i, j \in 1..Len(s) : s[i].k = s[j].k => i = j}

\* A room: its short key, its level reference (QC.Level, a short key of
\* the room's own model) or, instead, a level that lives in another model.
RoomElems(m, id) ==
  {[k |-> ShortKey(id), level |-> undefined, xlevel |-> undefined, model |-> m]}
  \cup
  {[k |-> ShortKey(id), level |-> ShortKey(l), xlevel |-> undefined, model |-> m] :
     l \in LevelIds}
  \cup
  {[k |-> ShortKey(id), level |-> undefined,
    xlevel |-> [modelId |-> Urn(DTM, m2), id |-> l], model |-> m] :
     m2 \in ModelNums \ {m}, l \in LevelIds}

LevelElems(m, id) == {[k |-> ShortKey(id), model |-> m]}

Elems(kind, m, id) ==
  IF kind = "rooms" THEN RoomElems(m, id) ELSE LevelElems(m, id)

\* What a scan by keys can answer: for each requested key the element or
\* nothing, in request order; nothing for a key that is no key.
RECURSIVE ScanResponses(_, _, _)
ScanResponses(kind, m, keys) ==
  IF keys = <<>> THEN {<<>>}
  ELSE LET rest == ScanResponses(kind, m, Tail(keys))
           key  == Head(keys)
           here == IF key = undefined THEN {} ELSE Elems(kind, m, key.id)
       IN  rest \cup {<<e>> \o r : e \in here, r \in rest}

\* ---- state ----------------------------------------------------------------
VARIABLES
  pc,            \* position in main()
  FACILITY_URN,  \* the configured facility
  links,         \* facility.links, the linked model ids in order
  linkIdx,       \* STEP 3 loop: index of the next link
  data,          \* levels, rooms, assets, roomAssetsMap, roomLevelMap
  modelRooms,    \* pending rooms: { modelId, roomId } in order found
  modelIdx,      \* STEP 6 loop: index of the next model of modelIds
  levelIds,      \* STEP 6: the level references of the current model
  taggedFetches, \* getTaggedAssets calls issued: modelId, result
  roomFetches,   \* getElements calls for rooms: modelId, keys, result
  levelFetches,  \* getElements calls for levels: modelId, keys, result
  out,           \* STEP 7: the structure listed
  view           \* the last traversal requested by a caller

vars == <<pc, FACILITY_URN, links, linkIdx, data, modelRooms, modelIdx,
          levelIds, taggedFetches, roomFetches, levelFetches, out, view>>

EmptyData ==
  [levels |-> EmptyMap, rooms |-> EmptyMap, assets |-> EmptyMap,
   roomAssetsMap |-> EmptyMap, roomLevelMap |-> EmptyMap]

NoView == [op |-> "none"]

Init ==
  /\ pc = "step2"
  /\ FACILITY_URN \in {Urn(DTT, f) : f \in FacilityIds}
  /\ links = <<>>
  /\ linkIdx = 1
  /\ data = EmptyData
  /\ modelRooms = <<>>
  /\ modelIdx = 1
  /\ levelIds = <<>>
  /\ taggedFetches = <<>>
  /\ roomFetches = <<>>
  /\ levelFetches = <<>>
  /\ out = <<>>
  /\ view = NoView

\* STEP 2: client.getFacility(FACILITY_URN) answers with the model links
LinkLists ==
  {s \in SeqsUpTo(ModelNums, NumModels) :
     /\ Len(s) >= 1
     /\ \A i, j \in 1..Len(s) : s[i] = s[j] => i = j}

GetFacility ==
  /\ pc = "step2"
  /\ \E s \in LinkLists :
       links' = [i \in 1..Len(s) |-> [modelId |-> Urn(DTM, s[i])]]
  /\ pc' = "step3"
  /\ UNCHANGED <<FACILITY_URN, linkIdx, data, modelRooms, modelIdx, levelIds,
                 taggedFetches, roomFetches, levelFetches, out, view>>

\* ---- STEP 3-5: assets and their room references ----------------------------
\* STEP 4 with a cross-model room put under the asset's own model
assetRoomsOfOwnModel(asset, modelId) ==
  LET roomRef == asset.rooms
  IN  IF roomRef # <<>>
      THEN LET roomKeys == fromShortKeyArray(roomRef)
           IN  [i \in 1..Len(roomKeys) |->
                  [modelId |-> modelId, roomId |-> toFullKey(roomKeys[i])]]
      ELSE LET roomKeys    == fromXrefKeyArray(asset.xrooms)
               modelIds    == roomKeys[1]
               elementKeys == roomKeys[2]
           IN  [i \in 1..Len(modelIds) |->
                  [modelId |-> modelId,
                   roomId  |-> IF i <= Len(elementKeys) THEN elementKeys[i]
                                                        ELSE undefined]]

\* STEP 4: the room references of one asset as { modelId, roomId }. The
\* same-model blob is read when it is there, the cross-model blob otherwise.
assetRoomsOf(asset, modelId) ==
  LET roomRef == asset.rooms
  IN  IF roomRef # <<>>
      THEN LET roomKeys == fromShortKeyArray(roomRef)
           IN  [i \in 1..Len(roomKeys) |->
                  [modelId |-> modelId, roomId |-> toFullKey(roomKeys[i])]]
      ELSE LET roomKeys    == fromXrefKeyArray(asset.xrooms)
               modelIds    == roomKeys[1]
               elementKeys == roomKeys[2]
           IN  [i \in 1..Len(modelIds) |->
                  [modelId |-> Urn(DTM, modelIds[i]),
                   roomId  |-> IF i <= Len(elementKeys) THEN elementKeys[i]
                                                        ELSE undefined]]

\* STEP 5: push the asset key to the bucket of every referenced room
RECURSIVE addToRoomAssetsMap(_, _, _)
addToRoomAssetsMap(roomAssetsMap, assetRooms, assetKey) ==
  IF assetRooms = <<>> THEN roomAssetsMap
  ELSE LET roomKey  == Head(assetRooms).roomId
           assetIds == IF Has(roomAssetsMap, roomKey)
                       THEN Get(roomAssetsMap, roomKey) ELSE <<>>
       IN  addToRoomAssetsMap(Put(roomAssetsMap, roomKey, Append(assetIds, assetKey)),
                              Tail(assetRooms), assetKey)

\* the body of the loop over the assets of one model; st is data and
\* modelRooms so far
RECURSIVE collectAssets(_, _, _)
collectAssets(st, assets, modelId) ==
  IF assets = <<>> THEN st
  ELSE LET asset      == Head(assets)
           assetKey   == toFullKey(asset.k)
           assetRooms == assetRoomsOf(asset, modelId)
           next ==
             [data |-> [st.data EXCEPT
                          !.assets = Put(@, assetKey, asset),
                          !.roomAssetsMap = addToRoomAssetsMap(@, assetRooms, assetKey)],
              modelRooms |-> st.modelRooms \o assetRooms]
       IN  collectAssets(next, Tail(assets), modelId)

\* one turn of the loop over facility.links
CollectLink ==
  /\ pc = "step3"
  /\ linkIdx <= Len(links)
  /\ LET link == links[linkIdx]
     IN  IF isDefaultModel(FACILITY_URN, link.modelId)
         THEN UNCHANGED <<data, modelRooms, taggedFetches>>
         ELSE \E assets \in TaggedResponses(link.modelId.id) :
                LET st == collectAssets([data |-> data, modelRooms |-> modelRooms],
                                        assets, link.modelId)
                IN  /\ taggedFetches' = Append(taggedFetches,
                          [modelId |-> link.modelId, result |-> assets])
                    /\ data' = st.data
                    /\ modelRooms' = st.modelRooms
  /\ linkIdx' = linkIdx + 1
  /\ UNCHANGED <<pc, FACILITY_URN, links, modelIdx, levelIds,
                 roomFetches, levelFetches, out, view>>

\* ---- STEP 6: rooms and levels, model by model -------------------------------
\* new Set(modelRooms.map(i => i.modelId))
modelIdsOf(mr) == Distinct([i \in 1..Len(mr) |-> mr[i].modelId])

\* new Set(modelRooms.filter(i => i.modelId === modelId).map(i => i.roomId))
roomIdsOf(mr, modelId) ==
  LET own == SelectSeqBy(mr, modelId)
  IN  Distinct([i \in 1..Len(own) |-> own[i].roomId])

\* the loop over the rooms returned, with roomLevelMap left alone
RECURSIVE storeRoomsNoLevelMap(_, _)
storeRoomsNoLevelMap(st, rooms) ==
  IF rooms = <<>> THEN st
  ELSE LET room     == Head(rooms)
           roomKey  == toFullKey(room.k)
           levelRef == room.level
           next ==
             [data |-> [st.data EXCEPT !.rooms = Put(@, roomKey, room)],
              levelIds |-> IF levelRef = undefined \/ levelRef \in Range(st.levelIds)
                           THEN st.levelIds
                           ELSE Append(st.levelIds, levelRef)]
       IN  storeRoomsNoLevelMap(next, Tail(rooms))

\* the loop over the rooms returned; st is data and levelIds so far
RECURSIVE storeRooms(_, _)
storeRooms(st, rooms) ==
  IF rooms = <<>> THEN st
  ELSE LET room     == Head(rooms)
           roomKey  == toFullKey(room.k)
           levelRef == room.level
           next ==
             IF levelRef # undefined
             THEN [data |-> [st.data EXCEPT
                               !.rooms = Put(@, roomKey, room),
                               !.roomLevelMap = Put(@, roomKey, toFullKey(levelRef))],
                   levelIds |-> IF levelRef \in Range(st.levelIds)
                                THEN st.levelIds
                                ELSE Append(st.levelIds, levelRef)]
             ELSE [data |-> [st.data EXCEPT !.rooms = Put(@, roomKey, room)],
                   levelIds |-> st.levelIds]
       IN  storeRooms(next, Tail(rooms))

\* the loop over the levels returned, keyed by the short key
RECURSIVE storeLevelsShortKey(_, _)
storeLevelsShortKey(levelsMap, levels) ==
  IF levels = <<>> THEN levelsMap
  ELSE LET level    == Head(levels)
           levelKey == level.k
       IN  storeLevelsShortKey(Put(levelsMap, levelKey, level), Tail(levels))

\* the loop over the levels returned
RECURSIVE storeLevels(_, _)
storeLevels(levelsMap, levels) ==
  IF levels = <<>> THEN levelsMap
  ELSE LET level    == Head(levels)
           levelKey == toFullKey(level.k)
       IN  storeLevels(Put(levelsMap, levelKey, level), Tail(levels))

\* the loop over the links is over: on to STEP 6
StartRooms ==
  /\ pc = "step3"
  /\ linkIdx > Len(links)
  /\ pc' = "step6"
  /\ UNCHANGED <<FACILITY_URN, links, linkIdx, data, modelRooms, modelIdx,
                 levelIds, taggedFetches, roomFetches, levelFetches, out, view>>

\* one turn of the loop over modelIds, up to the rooms being stored
FetchRooms ==
  /\ pc = "step6"
  /\ modelIdx <= Len(modelIdsOf(modelRooms))
  /\ LET modelId == modelIdsOf(modelRooms)[modelIdx]
         roomIds == roomIdsOf(modelRooms, modelId)
     IN  \E rooms \in ScanResponses("rooms", modelId.id, roomIds) :
           LET st == storeRooms([data |-> data, levelIds |-> <<>>], rooms)
           IN  /\ roomFetches' = Append(roomFetches,
                     [modelId |-> modelId, keys |-> roomIds, result |-> rooms])
               /\ data' = st.data
               /\ levelIds' = st.levelIds
               /\ IF Len(st.levelIds) > 0
                  THEN /\ pc' = "step6levels"
                       /\ modelIdx' = modelIdx
                  ELSE /\ pc' = "step6"
                       /\ modelIdx' = modelIdx + 1
  /\ UNCHANGED <<FACILITY_URN, links, linkIdx, modelRooms,
                 taggedFetches, levelFetches, out, view>>

\* the rest of the turn: the levels the rooms of this model refer to
FetchLevels ==
  /\ pc = "step6levels"
  /\ LET modelId == modelIdsOf(modelRooms)[modelIdx]
     IN  \E levels \in ScanResponses("levels", modelId.id, levelIds) :
           /\ levelFetches' = Append(levelFetches,
                 [modelId |-> modelId, keys |-> levelIds, result |-> levels])
           /\ data' = [data EXCEPT !.levels = storeLevels(@, levels)]
  /\ pc' = "step6"
  /\ modelIdx' = modelIdx + 1
  /\ levelIds' = <<>>
  /\ UNCHANGED <<FACILITY_URN, links, linkIdx, modelRooms,
                 taggedFetches, roomFetches, out, view>>

\* ---- STEP 7 and the traversals ----------------------------------------------
getLevels(d) ==
  [i \in 1..Len(d.levels.keys) |->
     [levelKey |-> d.levels.keys[i], level |-> Get(d.levels, d.levels.keys[i])]]

getRoomsByLevel(d, levelKey) ==
  LET Under(roomKey) == ~(Get(d.roomLevelMap, roomKey) # levelKey)
      roomKeys == SelectSeq(d.rooms.keys, Under)
  IN  [i \in 1..Len(roomKeys) |->
         [roomKey |-> roomKeys[i], room |-> Get(d.rooms, roomKeys[i])]]

\* getAssetsByRoom with a bucket that is not there read as an empty one
getAssetsByRoomLenient(d, roomKey) ==
  LET assetKeys == IF Has(d.roomAssetsMap, roomKey)
                   THEN Get(d.roomAssetsMap, roomKey) ELSE <<>>
  IN  [threw  |-> FALSE,
       yields |-> [i \in 1..Len(assetKeys) |->
                     [assetKey |-> assetKeys[i], asset |-> Get(d.assets, assetKeys[i])]]]

\* threw: the for-of over a bucket that is not there throws a TypeError
getAssetsByRoom(d, roomKey) ==
  LET assetKeys == Get(d.roomAssetsMap, roomKey)
  IN  IF ~Has(d.roomAssetsMap, roomKey)   \* assetKeys is undefined
      THEN [threw |-> TRUE, yields |-> <<>>]
      ELSE [threw  |-> FALSE,
            yields |-> [i \in 1..Len(assetKeys) |->
                          [assetKey |-> assetKeys[i],
                           asset |-> Get(d.assets, assetKeys[i])]]]

\* the nested loops of STEP 7: what is listed, and whether a loop threw
listing(d) ==
  LET ls == getLevels(d)
  IN  [i \in 1..Len(ls) |->
         LET rs == getRoomsByLevel(d, ls[i].levelKey)
         IN  [levelKey |-> ls[i].levelKey,
              rooms |-> [j \in 1..Len(rs) |->
                           [roomKey |-> rs[j].roomKey,
                            assets  |-> getAssetsByRoom(d, rs[j].roomKey)]]]]

listingThrew(l) ==
  \E i \in 1..Len(l) : \E j \in 1..Len(l[i].rooms) : l[i].rooms[j].assets.threw

ListStructure ==
  /\ pc = "step6"
  /\ modelIdx > Len(modelIdsOf(modelRooms))
  /\ out' = listing(data)
  /\ pc' = IF listingThrew(listing(data)) THEN "failure" ELSE "success"
  /\ UNCHANGED <<FACILITY_URN, links, linkIdx, data, modelRooms, modelIdx,
                 levelIds, taggedFetches, roomFetches, levelFetches, view>>

\* a caller of the traversals asks for the assets of a room key
QueryKeys == {FullKeyOf(r) : r \in RoomIds} \cup {undefined}

AssetsByRoom ==
  /\ pc = "success"
  /\ \E roomKey \in QueryKeys :
       view' = [op |-> "assetsByRoom", roomKey |-> roomKey,
                result |-> getAssetsByRoom(data, roomKey)]
  /\ UNCHANGED <<pc, FACILITY_URN, links, linkIdx, data, modelRooms, modelIdx,
                 levelIds, taggedFetches, roomFetches, levelFetches, out>>

Next ==
  \/ GetFacility
  \/ CollectLink
  \/ StartRooms
  \/ FetchRooms
  \/ FetchLevels
  \/ ListStructure
  \/ AssetsByRoom

Spec == Init /\ [][Next]_vars

\* ---- what was fetched, read from the logs ------------------------------------
\* the tagged assets the scans returned (each with the model it came from)
FetchedAssets ==
  UNION {Range(taggedFetches[i].result) : i \in 1..Len(taggedFetches)}

\* the rooms and the levels the scans by key returned
ReturnedRooms ==
  UNION {Range(roomFetches[i].result) : i \in 1..Len(roomFetches)}

ReturnedLevels ==
  UNION {Range(levelFetches[i].result) : i \in 1..Len(levelFetches)}

\* an asset whose cross-model blob holds a model id with no element key
Malformed(a) == a.rooms = <<>> /\ Len(a.xrooms) % 2 = 1

\* the rooms an asset refers to, each by owning model and element id
RoomsReferenced(a) ==
  IF a.rooms # <<>>
  THEN {[model |-> a.model, id |-> a.rooms[i]] : i \in 1..Len(a.rooms)}
  ELSE {[model |-> a.xrooms[2 * i - 1], id |-> a.xrooms[2 * i]] :
          i \in 1..(Len(a.xrooms) \div 2)}

\* the buckets of roomAssetsMap that hold an asset key
BucketsWith(assetKey) ==
  {roomKey \in DOMAIN data.roomAssetsMap.val :
     assetKey \in Range(data.roomAssetsMap.val[roomKey])}

DefaultModelId == Urn(DTM, FACILITY_URN.id)

AfterPass1 == pc \in {"step6", "step6levels", "success", "failure"}
Resolved   == pc \in {"success", "failure"}

LevelQueryKeys == {FullKeyOf(l) : l \in 1..(NumLevels + 1)} \cup {undefined}

Count(s, x) == Cardinality({i \in 1..Len(s) : s[i] = x})

\* ---- claims -----------------------------------------------------------------
\* C1: the keys of roomAssetsMap and roomLevelMap are model-qualified: two
\* rooms of different models with the same local key never share a bucket
\* of roomAssetsMap, and never share (overwrite) an entry of roomLevelMap.
C1_KeysAreModelQualified ==
  /\ \A i, j \in 1..Len(modelRooms) :
       (modelRooms[i].roomId # undefined
          /\ modelRooms[i].roomId = modelRooms[j].roomId)
       => modelRooms[i].modelId = modelRooms[j].modelId
  /\ \A r1, r2 \in ReturnedRooms :
       (r1.level # undefined /\ r2.level # undefined
          /\ toFullKey(r1.k) = toFullKey(r2.k))
       => r1.model = r2.model

\* C2: no tagged-asset fetch is issued against the default model, and no
\* element scanned from the default model is in assets.
C2_DefaultModelSkipped ==
  /\ \A i \in 1..Len(taggedFetches) : taggedFetches[i].modelId # DefaultModelId
  /\ \A assetKey \in DOMAIN data.assets.val :
       Urn(DTM, data.assets.val[assetKey].model) # DefaultModelId

\* C2 witness: the loop over the links went past the default model and
\* another model's scan brought an asset
C2_Witness ==
  /\ AfterPass1
  /\ \E i \in 1..Len(links) : links[i].modelId = DefaultModelId
  /\ Len(taggedFetches) >= 1
  /\ data.assets.keys # <<>>

\* C3: after Pass 1 an asset that references k distinct rooms is in exactly
\* k buckets of roomAssetsMap.
C3_OneBucketPerRoom ==
  AfterPass1 =>
    \A a \in FetchedAssets :
      ~Malformed(a) =>
        Cardinality(BucketsWith(toFullKey(a.k))) = Cardinality(RoomsReferenced(a))

\* C4: after Pass 2 every model that owns a pending room got exactly one
\* room fetch, with the de-duplicated keys of its pending rooms; a room an
\* asset refers to is asked of the model that owns the room and of no model
\* that does not own it; no other model got a room fetch.
C4_OneRoomFetchPerOwningModel ==
  Resolved =>
    /\ \A i \in 1..Len(modelRooms) :
         LET modelId == modelRooms[i].modelId
             own == {j \in 1..Len(roomFetches) : roomFetches[j].modelId = modelId}
         IN  /\ Cardinality(own) = 1
             /\ \A j \in own :
                  /\ Range(roomFetches[j].keys) =
                       {modelRooms[n].roomId :
                          n \in {n \in 1..Len(modelRooms) :
                                   modelRooms[n].modelId = modelId}}
                  /\ \A x, y \in 1..Len(roomFetches[j].keys) :
                       roomFetches[j].keys[x] = roomFetches[j].keys[y] => x = y
    /\ \A j \in 1..Len(roomFetches) :
         \E i \in 1..Len(modelRooms) : modelRooms[i].modelId = roomFetches[j].modelId
    /\ \A a \in FetchedAssets : \A r \in RoomsReferenced(a) :
         \E j \in 1..Len(roomFetches) :
           /\ roomFetches[j].modelId = Urn(DTM, r.model)
           /\ FullKeyOf(r.id) \in Range(roomFetches[j].keys)
    /\ \A j \in 1..Len(roomFetches) :
         \A key \in Range(roomFetches[j].keys) \ {undefined} :
           \E a \in FetchedAssets : \E r \in RoomsReferenced(a) :
             /\ Urn(DTM, r.model) = roomFetches[j].modelId
             /\ FullKeyOf(r.id) = key

\* C4 witness: an asset of one model refers to a room of another model and
\* the room was asked of that other model
C4_Witness ==
  /\ Resolved
  /\ \E a \in FetchedAssets : \E r \in RoomsReferenced(a) :
       /\ r.model # a.model
       /\ \E j \in 1..Len(roomFetches) :
            /\ roomFetches[j].modelId = Urn(DTM, r.model)
            /\ FullKeyOf(r.id) \in Range(roomFetches[j].keys)
            /\ Len(roomFetches[j].keys) >= 2

\* C5: a room R of model M that an asset refers to and that the room fetch
\* of M did not return keeps its bucket with the asset, and has no entry in
\* rooms or roomLevelMap and is yielded by getRoomsByLevel for no level key.
C5_DanglingRoom ==
  Resolved =>
    \A a \in FetchedAssets :
      ~Malformed(a) =>
        \A r \in RoomsReferenced(a) :
          (~\E room \in ReturnedRooms : room.model = r.model /\ room.k.id = r.id)
          => /\ Has(data.roomAssetsMap, FullKeyOf(r.id))
             /\ toFullKey(a.k) \in Range(Get(data.roomAssetsMap, FullKeyOf(r.id)))
             /\ ~Has(data.rooms, FullKeyOf(r.id))
             /\ ~Has(data.roomLevelMap, FullKeyOf(r.id))
             /\ \A levelKey \in LevelQueryKeys :
                  \A i \in 1..Len(getRoomsByLevel(data, levelKey)) :
                    getRoomsByLevel(data, levelKey)[i].roomKey # FullKeyOf(r.id)

\* C6: after resolution every level key that is a value of roomLevelMap is
\* a key of levels.
C6_RoomLevelValuesAreLevels ==
  Resolved =>
    \A roomKey \in DOMAIN data.roomLevelMap.val :
      Has(data.levels, data.roomLevelMap.val[roomKey])

\* C6 as amended: after resolution the keys of levels are the keys of the
\* levels the level fetches returned (a level not returned is left out),
\* while roomLevelMap has an entry for every returned room that carries a
\* level reference, returned level or not.
C6_LevelsAreTheReturnedOnes ==
  Resolved =>
    /\ DOMAIN data.levels.val = {toFullKey(level.k) : level \in ReturnedLevels}
    /\ \A room \in ReturnedRooms :
         room.level # undefined => Has(data.roomLevelMap, toFullKey(room.k))

\* C6 witness: a room's level was asked for and not returned; roomLevelMap
\* still names it
C6_Witness ==
  /\ Resolved
  /\ \E roomKey \in DOMAIN data.roomLevelMap.val :
       ~Has(data.levels, data.roomLevelMap.val[roomKey])
  /\ \E j \in 1..Len(levelFetches) : levelFetches[j].result = <<>>

\* C7: an asset whose cross-model blob decodes to arrays of unequal length
\* has its room references skipped: no bucket gains the asset, and no
\* pending room without a room key is added.
C7_MalformedXrefSkipped ==
  AfterPass1 =>
    /\ \A i \in 1..Len(modelRooms) : modelRooms[i].roomId # undefined
    /\ \A a \in FetchedAssets :
         (Malformed(a) /\ \A b \in FetchedAssets : b.k = a.k => b = a)
         => BucketsWith(toFullKey(a.k)) = {}

\* C8: after resolution a returned room that carries a level reference is
\* yielded exactly once by getRoomsByLevel of its level and not at all by
\* getRoomsByLevel of any other level key.
C8_RoomUnderItsLevelOnce ==
  Resolved =>
    \A room \in ReturnedRooms :
      room.level # undefined =>
        LET yield == [roomKey |-> toFullKey(room.k), room |-> room]
        IN  /\ Count(getRoomsByLevel(data, toFullKey(room.level)), yield) = 1
            /\ \A levelKey \in LevelQueryKeys \ {toFullKey(room.level)} :
                 Count(getRoomsByLevel(data, levelKey), yield) = 0

\* C9: getAssetsByRoom fails hard and yields nothing for a room key that
\* Pass 1 never recorded, and does not fail for a room key it recorded.
C9_MissingBucketThrows ==
  view.op = "assetsByRoom" =>
    LET recorded == \E i \in 1..Len(modelRooms) : modelRooms[i].roomId = view.roomKey
    IN  /\ view.result.threw <=> ~recorded
        /\ ~recorded => view.result.yields = <<>>
        /\ recorded => Len(view.result.yields) >= 1

\* C9 witness: some rooms were recorded, and the traversal was asked for a
\* room key that was not
C9_Witness ==
  /\ view.op = "assetsByRoom"
  /\ view.result.threw
  /\ data.roomAssetsMap.keys # <<>>

====
